---- MODULE Spec2Model ----
(***************************************************************************)
(* Model of the query workflow of db-chat-bot: WorkflowAgent (the          *)
(* LangGraph state machine of agents/workflow_agent.py), the input         *)
(* guardrails it validates with, and the collaborators it calls.           *)
(*                                                                         *)
(* Text (SQL, error messages, responses) is a sequence of tokens, the user *)
(* utterance a sequence of characters.  "" is the empty sequence and       *)
(* Python's None (or an absent key of the state dict) is the value None.   *)
(* One behaviour of Spec is one call of WorkflowAgent.run: pc is the node  *)
(* the compiled graph runs next, each action is one node together with the *)
(* conditional edge that routes out of it.                                 *)
(***************************************************************************)
EXTENDS Integers, Sequences, FiniteSets, TLC

VARIABLES
    pc,               \* node the graph runs next, "end" (END) or "raised"
    max_retries,      \* WorkflowAgent.max_retries
    has_classifier,   \* self.query_classifier is not None
    has_responder,    \* self.response_generator is not None
    rag_schema,       \* SchemaRAG.schema_info, the shared schema cache
    rag_database,     \* SchemaRAG.database_name
    user_query,       \* AgentState fields
    query_type,
    schema_info,
    sql_query,
    validation_error,
    execution_error,
    query_results,
    retry_count,
    steps,
    final_response,
    trace,            \* history: one record per node run, with the calls it made
    parked,           \* the AgentState of the invocations of run that are not running
    session           \* st.session_state of the chat session that owns the agent

vars == << pc, max_retries, has_classifier, has_responder,
           rag_schema, rag_database, user_query, query_type, schema_info,
           sql_query, validation_error, execution_error, query_results,
           retry_count, steps, final_response, trace, parked, session >>

-----------------------------------------------------------------------------
(* Bounds *)

MaxRetriesBound == 2

\* the longest utterance given to the keyword heuristic, in pieces
MaxPieces == 2

-----------------------------------------------------------------------------
(* Values *)

None == << "<None>" >>
Absent == "<None>"
NoResults == -1

\* the workflow used outside a chat session
NoSession == [schema_rag |-> 0, workflow_agent |-> 0, connected |-> FALSE,
              schema_loaded |-> FALSE, neo4j_connected |-> FALSE,
              sql_generator |-> FALSE]

Truthy(t) == t # None /\ t # << >>

Or(a, b) == IF Truthy(a) THEN a ELSE b

RECURSIVE LStrip(_)
LStrip(s) == IF s # << >> /\ Head(s) = " " THEN LStrip(Tail(s)) ELSE s

RECURSIVE RStrip(_)
RStrip(s) ==
    IF s # << >> /\ s[Len(s)] = " " THEN RStrip(SubSeq(s, 1, Len(s) - 1)) ELSE s

Strip(s) == RStrip(LStrip(s))

StartsWith(s, tok) == s # << >> /\ Head(s) = tok
EndsWith(s, tok) == s # << >> /\ s[Len(s)] = tok

Contains(s, w) ==
    \E i \in 1..(Len(s) - Len(w) + 1) : SubSeq(s, i, i + Len(w) - 1) = w

\* markdown clean-up shared by SQLGenerator.generate_sql and _fix_query;
\* "<fence sql>" and "<fence>" are the code-fence markers, with and without
\* the language tag
DropFenceOpen(s) ==
    IF StartsWith(s, "<fence sql>") THEN Tail(s)
    ELSE IF StartsWith(s, "<fence>") THEN Tail(s)
    ELSE s

DropFenceClose(s) == IF EndsWith(s, "<fence>") THEN SubSeq(s, 1, Len(s) - 1) ELSE s

CleanResponse(raw) == Strip(DropFenceClose(DropFenceOpen(Strip(raw))))

\* what the language model may answer to a generation or repair prompt
RawResponses ==
    { << "SELECT", "x" >>,
      << "SELECT", "y" >>,
      << "DROP", "x" >>,
      << "<fence sql>", "SELECT", "x", "<fence>", " " >>,
      << " " >>,
      << "ERROR:", "x" >> }

\* what it may answer to the repair prompt, which, unlike the generation
\* prompt, does not ask for an "ERROR:" answer; a second forbidden statement
\* lets one failed validation follow another on a different SQL
FixResponses ==
    { raw \in RawResponses : ~StartsWith(raw, "ERROR:") } \cup { << "DROP", "y" >> }

-----------------------------------------------------------------------------
(* SQLGenerator.generate_sql: the answer of the model cleaned up, None on an
   "ERROR:" answer or when the call to the model throws *)

GenerateSql(raw, throws) ==
    IF throws THEN None
    ELSE IF StartsWith(CleanResponse(raw), "ERROR:") THEN None
    ELSE CleanResponse(raw)

(* WorkflowAgent._fix_query: the answer of the model cleaned up, None when
   the call to the model throws *)

FixQuery(raw, throws) == IF throws THEN None ELSE CleanResponse(raw)

-----------------------------------------------------------------------------
(* InputGuardrails *)

FORBIDDEN_KEYWORDS ==
    { "DROP", "DELETE", "INSERT", "UPDATE", "TRUNCATE", "ALTER",
      "CREATE", "GRANT", "REVOKE", "EXEC", "EXECUTE", "CALL" }

\* str.upper() on the tokens of the vocabulary
Upper(tok) ==
    CASE tok = "select" -> "SELECT"
      [] tok = "drop"   -> "DROP"
      [] tok = "union"  -> "UNION"
      [] tok = "from"   -> "FROM"
      [] tok = "yes"    -> "YES"
      [] tok = "dropped" -> "DROPPED"
      [] OTHER          -> tok

UpperText(q) == [i \in 1..Len(q) |-> Upper(q[i])]

\* the whole-word search without the upper-casing of the query
ForbiddenInExactCase(q) == { k \in FORBIDDEN_KEYWORDS : \E i \in 1..Len(q) : q[i] = k }

\* the forbidden keywords that occur in q as a whole word, in any case
ForbiddenIn(q) == { k \in FORBIDDEN_KEYWORDS : \E i \in 1..Len(q) : Upper(q[i]) = k }

\* the forbidden keywords that occur anywhere in q.upper(), inside a longer
\* word included (keyword in query_upper)
ForbiddenWithin(q) ==
    ForbiddenIn(q)
    \cup { k \in { "DROP" } : \E i \in 1..Len(q) : Upper(q[i]) = "DROPPED" }

\* SQL_INJECTION_PATTERNS, each as what it matches among the tokens
MatchesInjectionPattern(q) ==
    LET u == UpperText(q)
        Has(tok) == \E i \in 1..Len(u) : u[i] = tok
        Before(a, b) == \E i, j \in 1..Len(u) : i < j /\ u[i] = a /\ u[j] = b
    IN  \/ Has("--")
        \/ Before("/*", "*/")
        \/ Before("UNION", "SELECT")
        \/ Before(";", "DROP")
        \/ Before(";", "DELETE")
        \/ Has("XP_CMDSHELL")
        \/ Has("SP_HELP")
        \/ Before("EXEC", "(")
        \/ Has("0X1F")

check_sql_injection(q) ==
    IF ForbiddenIn(q) # {}
    THEN [ok |-> FALSE,
          error |-> << "Security violation: keyword detected",
                       CHOOSE k \in ForbiddenIn(q) : TRUE >>]
    ELSE IF MatchesInjectionPattern(q)
    THEN [ok |-> FALSE, error |-> << "Security violation: Potential SQL injection detected." >>]
    ELSE [ok |-> TRUE, error |-> None]

\* the tokens of q in front of a "#": sqlparse lexes "# " and what follows
\* it on the line as one comment token (the MySQL comment syntax)
BeforeComment(q) ==
    LET at == { i \in 1..Len(q) : q[i] = "#" }
    IN  IF at = {} THEN q
        ELSE SubSeq(q, 1, (CHOOSE i \in at : \A j \in at : i <= j) - 1)

\* the statement splitter of sqlparse: a statement ends with its ";"
RECURSIVE SplitStatements(_)
SplitStatements(q) ==
    IF q = << >> THEN << >>
    ELSE IF \E i \in 1..Len(q) : q[i] = ";"
    THEN LET i == CHOOSE n \in 1..Len(q) :
                      q[n] = ";" /\ \A m \in 1..(n - 1) : q[m] # ";"
         IN  << SubSeq(q, 1, i) >> \o SplitStatements(SubSeq(q, i + 1, Len(q)))
    ELSE << q >>

\* sqlparse.parse: the statements of q; a comment is one token, "#", of the
\* statement it follows, or a statement of its own when nothing precedes it
Statements(q) ==
    LET code == SplitStatements(BeforeComment(q))
    IN  IF BeforeComment(q) = q THEN code
        ELSE IF code = << >> THEN << << "#" >> >>
        ELSE [code EXCEPT ![Len(code)] = Append(@, "#")]

\* the token types the validator tells apart: DML, exactly Keyword, anything else
TType(tok) ==
    CASE Upper(tok) \in { "SELECT", "INSERT", "UPDATE", "DELETE" } -> "DML"
      [] Upper(tok) \in { "FROM", "UNION", "TABLE", "TRUNCATE", "GRANT",
                          "REVOKE", "EXEC", "EXECUTE", "CALL" }   -> "Keyword"
      [] OTHER -> "Other"

\* the first token of the statement that is DML or Keyword, upper-cased
FirstKeyword(stmt) ==
    LET at == { i \in 1..Len(stmt) : TType(stmt[i]) \in { "DML", "Keyword" } }
    IN  IF at = {} THEN None
        ELSE << Upper(stmt[CHOOSE i \in at : \A j \in at : i <= j]) >>

\* the checks of the loop body on one statement; ok = TRUE when none returns
CheckStatement(q, parsed, stmt) ==
    LET first_keyword == FirstKeyword(stmt)
    IN  IF first_keyword = None /\ ForbiddenWithin(q) # {}
        THEN [ok |-> FALSE,
              error |-> << "Forbidden operation",
                           CHOOSE k \in ForbiddenWithin(q) : TRUE >>]
        ELSE IF first_keyword # None /\ first_keyword # << "SELECT" >>
        THEN [ok |-> FALSE,
              error |-> << "Only SELECT queries are allowed. Found:" >> \o first_keyword]
        ELSE IF Len(parsed) > 1
        THEN [ok |-> FALSE, error |-> << "Multiple SQL statements are not allowed." >>]
        ELSE [ok |-> TRUE, error |-> None]

validate_select_only(q) ==
    LET parsed == Statements(q)
        failing == { i \in 1..Len(parsed) : ~CheckStatement(q, parsed, parsed[i]).ok }
    IN  IF parsed = << >> THEN [ok |-> FALSE, error |-> << "Empty SQL query" >>]
        ELSE IF failing = {} THEN [ok |-> TRUE, error |-> None]
        ELSE CheckStatement(q, parsed, parsed[CHOOSE i \in failing : \A j \in failing : i <= j])

\* validate_query with the SELECT-only check in front of the injection check
validate_query_select_first(q) ==
    IF ~validate_select_only(q).ok THEN validate_select_only(q)
    ELSE check_sql_injection(q)

\* validate_query on a string; on None check_sql_injection raises (None.upper())
validate_query(q) ==
    IF ~check_sql_injection(q).ok THEN check_sql_injection(q)
    ELSE validate_select_only(q)

ValidateRaises(q) == q = None

-----------------------------------------------------------------------------
(* WorkflowAgent._classify_query, the keyword heuristic *)

Lower(ch) ==
    CASE ch = "H" -> "h"
      [] ch = "S" -> "s"
      [] OTHER    -> ch

LowerText(q) == [i \in 1..Len(q) |-> Lower(q[i])]

greeting_words ==
    { << "h", "i" >>,
      << "h", "e", "l", "l", "o" >>,
      << "h", "e", "y" >>,
      << "g", "r", "e", "e", "t", "i", "n", "g", "s" >>,
      << "g", "o", "o", "d", " ", "m", "o", "r", "n", "i", "n", "g" >>,
      << "g", "o", "o", "d", " ", "a", "f", "t", "e", "r", "n", "o", "o", "n" >>,
      << "g", "o", "o", "d", " ", "e", "v", "e", "n", "i", "n", "g" >> }

sql_keywords ==
    { << "s", "h", "o", "w" >>,
      << "l", "i", "s", "t" >>,
      << "d", "i", "s", "p", "l", "a", "y" >>,
      << "f", "i", "n", "d" >>,
      << "g", "e", "t" >>,
      << "c", "o", "u", "n", "t" >>,
      << "h", "o", "w", " ", "m", "a", "n", "y" >>,
      << "w", "h", "a", "t", " ", "a", "r", "e" >>,
      << "w", "h", "i", "c", "h" >>,
      << "s", "e", "l", "e", "c", "t" >> }

\* _classify_query testing the query keywords before the greeting words
ClassifyQueryKeywordsFirst(q) ==
    LET query_lower == LowerText(q)
    IN  IF \E k \in sql_keywords : Contains(query_lower, k) THEN "sql_query"
        ELSE IF \E w \in greeting_words : Contains(query_lower, w) THEN "greeting"
        ELSE "general_question"

ClassifyQuery(q) ==
    LET query_lower == LowerText(q)
    IN  IF \E w \in greeting_words : Contains(query_lower, w) THEN "greeting"
        ELSE IF \E k \in sql_keywords : Contains(query_lower, k) THEN "sql_query"
        ELSE "general_question"

\* the utterances a run may be started with: "Hello", "Show x" and "help"
UserQueries ==
    { << "H", "e", "l", "l", "o" >>,
      << "S", "h", "o", "w", " ", "x" >>,
      << "h", "e", "l", "p" >> }

-----------------------------------------------------------------------------
(* Collaborators: what each call may return *)

\* SchemaRAG.schema_info / PostgresClient.fetch_schema: no schema, or one
Schemas == { "S1", "S2" }

\* str(e) of the database error, or "Not connected to database"
ExecErrors == { << "e1" >>, << "e2" >>, << >> }

\* len(results["rows"]) of a result that has columns
RowCounts == { 0, 3 }

\* PostgresClient.execute_query: (True, {columns, rows}, None),
\* (True, {affected_rows}, None) or (False, None, error)
ExecOutcomes ==
    [success : { TRUE }, columns : { TRUE }, rows : RowCounts, error : { None }]
    \cup [success : { TRUE }, columns : { FALSE }, rows : { 0 }, error : { None }]
    \cup [success : { FALSE }, columns : { FALSE }, rows : { 0 }, error : ExecErrors]

\* what the language model may answer to the classification prompt
ClassifierAnswers == { << "YES" >>, << "yes" >>, << "NO" >>, << >> }

\* QueryClassifier.classify_query: "YES" in the upper-cased answer; a failed
\* call to the model is caught and answered with needs_sql = True
classify_query(answer, throws) ==
    IF throws
    THEN [needs_sql |-> TRUE,
          reasoning |-> << "Could not classify, defaulting to SQL query" >>]
    ELSE IF \E i \in 1..Len(Strip(answer)) : Upper(Strip(answer)[i]) = "YES"
    THEN [needs_sql |-> TRUE, reasoning |-> << "Query requires database access" >>]
    ELSE [needs_sql |-> FALSE, reasoning |-> << "Query does not require database access" >>]

\* ResponseGenerator.generate_response: a text, possibly empty
Responses == { << "answer" >>, << >> }

-----------------------------------------------------------------------------
(* The step trace *)

\* _log_step keeping one record per step number: a record with the number
\* of the latest one replaces it
LogStepInPlace(st, step_num, name, status, message) ==
    LET rec == [step |-> step_num, name |-> name, status |-> status,
                message |-> message]
    IN  IF Len(st) > 0 /\ st[Len(st)].step = step_num
        THEN [st EXCEPT ![Len(st)] = rec]
        ELSE Append(st, rec)

\* _log_step
LogStep(st, step_num, name, status, message) ==
    Append(st, [step |-> step_num, name |-> name, status |-> status,
                message |-> message])

\* one record of the history of the run: the node, the calls it made, the
\* SQL before and after, the outcome, and the argument of the call that a
\* property needs (the error given to _fix_query; the schema_info given to
\* generate_sql together with the cache content its context was made from)
RanWith(node, calls, sql_in, sql_out, ok, ret, arg) ==
    [node |-> node, calls |-> calls, sql_in |-> sql_in, sql_out |-> sql_out,
     ok |-> ok, ret |-> ret, arg |-> arg]

Ran(node, calls, sql_in, sql_out, ok, ret) ==
    RanWith(node, calls, sql_in, sql_out, ok, ret, None)

\* the final responses of the workflow
GreetingResponse == << "Hello! I'm your database assistant." >>
GeneralResponse == << "I can help you query your database." >>
SchemaFailedResponse == << "Failed to retrieve database schema." >>
GenerationFailedResponse == << "I couldn't generate a SQL query for your question." >>
ValidationFailedResponse(err) ==
    << "SQL validation failed after", ToString(max_retries), "attempts:" >> \o err
ExecutionFailedResponse(err) ==
    << "Query execution failed after", ToString(max_retries), "attempts. Error:" >> \o err

\* the templated summary without the number of rows
CountResponseWithoutCount(row_count) == << "I found", "result(s) for your query." >>

CountResponse(row_count) == << "I found", ToString(row_count), "result(s) for your query." >>

-----------------------------------------------------------------------------
(* WorkflowAgent: conditional edges.  Each returns the node to run next and
   the final_response the state holds after it: the routers assign
   state["final_response"] themselves, and the assignment is taken to reach
   the state the run returns, as the source reads. *)

\* _should_continue_to_sql ending the run for greetings only
ShouldContinueToSqlUnlessGreeting(qt) ==
    IF qt = "greeting" THEN "end" ELSE "retrieve_schema"

\* _should_continue_to_sql
ShouldContinueToSql(qt) == IF qt = "sql_query" THEN "retrieve_schema" ELSE "end"

\* _should_retry_validation with <= for < in the budget test
ShouldRetryValidationOffByOne(verr, rc, fr) ==
    IF Truthy(verr)
    THEN IF rc <= max_retries
         THEN [to |-> "fix_query", final_response |-> fr]
         ELSE [to |-> "execute_query", final_response |-> ValidationFailedResponse(verr)]
    ELSE [to |-> "execute_query", final_response |-> fr]

\* _should_retry_validation
ShouldRetryValidation(verr, rc, fr) ==
    IF Truthy(verr)
    THEN IF rc < max_retries
         THEN [to |-> "fix_query", final_response |-> fr]
         ELSE [to |-> "execute_query", final_response |-> ValidationFailedResponse(verr)]
    ELSE [to |-> "execute_query", final_response |-> fr]

\* _should_retry_execution with <= for < in the budget test
ShouldRetryExecutionOffByOne(eerr, verr, rc, results, fr) ==
    IF Truthy(eerr)
    THEN IF rc <= max_retries
         THEN [to |-> "fix_query", final_response |-> fr]
         ELSE [to |-> "end", final_response |-> ExecutionFailedResponse(eerr)]
    ELSE IF Truthy(verr) /\ rc >= max_retries
    THEN [to |-> "end", final_response |-> fr]
    ELSE IF results # NoResults
    THEN [to |-> "generate_response", final_response |-> fr]
    ELSE [to |-> "end", final_response |-> fr]

\* _should_retry_execution
ShouldRetryExecution(eerr, verr, rc, results, fr) ==
    IF Truthy(eerr)
    THEN IF rc < max_retries
         THEN [to |-> "fix_query", final_response |-> fr]
         ELSE [to |-> "end", final_response |-> ExecutionFailedResponse(eerr)]
    ELSE IF Truthy(verr) /\ rc >= max_retries
    THEN [to |-> "end", final_response |-> fr]
    ELSE IF results # NoResults
    THEN [to |-> "generate_response", final_response |-> fr]
    ELSE [to |-> "end", final_response |-> fr]

\* the unconditional edges of _build_graph
RetrieveSchemaEdge == "generate_sql"

\* generate_sql wired back to retrieve_schema
GenerateSqlEdgeToSchema == "retrieve_schema"

GenerateSqlEdge == "validate_sql"

\* fix_query wired straight to execute_query
FixQueryEdgeToExecute == "execute_query"
FixQueryEdge == "validate_sql"
GenerateResponseEdge == "end"

-----------------------------------------------------------------------------
(* WorkflowAgent: nodes *)

ClassifyName == "Input Validation & Classification"

\* _classify_query_node with the query type qt it arrived at, steps st so far;
\* ok: the classifier, if any, answered; ret: its reasoning
ClassifyFinish(qt, st, calls, ok, ret) ==
    /\ query_type' = qt
    /\ final_response' =
           IF qt = "greeting" THEN GreetingResponse
           ELSE IF qt = "general_question" THEN GeneralResponse
           ELSE final_response
    /\ steps' = LogStep(st, 1, ClassifyName, "completed",
                        IF qt = "greeting" THEN << "Query classified as greeting" >>
                        ELSE IF qt = "general_question"
                        THEN << "Query classified as general question" >>
                        ELSE << "Query requires SQL generation" >>)
    /\ pc' = ShouldContinueToSql(qt)
    /\ trace' = Append(trace, Ran("classify_query", calls, sql_query, sql_query, ok, ret))
    /\ UNCHANGED << session, parked, max_retries, has_classifier, has_responder,
                    rag_schema, rag_database,
                    user_query, schema_info, sql_query, validation_error,
                    execution_error, query_results, retry_count >>

ClassifyQueryNode ==
    /\ pc = "classify_query"
    /\ LET st0 == LogStep(steps, 1, ClassifyName, "in_progress",
                          << "Checking query type and guardrails..." >>)
           fallback == ClassifyQuery(user_query)
       IN  IF has_classifier
           THEN \E raises \in BOOLEAN, answer \in ClassifierAnswers, throws \in BOOLEAN :
                  IF raises
                  THEN ClassifyFinish(fallback,
                           LogStep(st0, 1, ClassifyName, "completed",
                                   << "Query classified as:", fallback >>),
                           << "get_schema", "classify_query" >>,
                           FALSE, << "raised" >>)
                  ELSE LET verdict == classify_query(answer, throws)
                       IN  ClassifyFinish(
                               IF verdict.needs_sql THEN "sql_query" ELSE "general_question",
                               LogStep(st0, 1, ClassifyName, "completed",
                                       << "Query classified:" >> \o verdict.reasoning),
                               << "get_schema", "classify_query" >>,
                               ~throws, verdict.reasoning)
           ELSE ClassifyFinish(fallback,
                    LogStep(st0, 1, ClassifyName, "completed",
                            << "Query classified as:", fallback >>),
                    << >>, TRUE, None)

SchemaName == "Schema Retrieval (RAG)"

\* _retrieve_schema_node
RetrieveSchemaNode ==
    /\ pc = "retrieve_schema"
    /\ LET st0 == LogStep(steps, 2, SchemaName, "in_progress",
                          << "Retrieving database schema from RAG..." >>)
           st1 == LogStep(st0, 2, SchemaName, "in_progress",
                          << "Schema not in RAG, fetching from database..." >>)
       IN  IF rag_schema # Absent
           THEN /\ schema_info' = rag_schema
                /\ steps' = LogStep(st0, 2, SchemaName, "completed",
                                    << "Retrieved schema from RAG" >>)
                /\ trace' = Append(trace, Ran("retrieve_schema", << "get_schema" >>,
                                              sql_query, sql_query, TRUE, None))
                /\ UNCHANGED << rag_schema, rag_database, final_response >>
           ELSE \E fetched \in Schemas \cup { Absent } :
                  /\ trace' = Append(trace, Ran("retrieve_schema",
                                                << "get_schema", "fetch_schema" >>,
                                                sql_query, sql_query, fetched # Absent, None))
                  /\ IF fetched # Absent
                     THEN /\ rag_schema' = fetched
                          /\ rag_database' = Absent
                          /\ schema_info' = fetched
                          /\ steps' = LogStep(st1, 2, SchemaName, "completed",
                                              << "Fetched and stored schema" >>)
                          /\ UNCHANGED final_response
                     ELSE /\ steps' = LogStep(st1, 2, SchemaName, "error",
                                              << "Failed to retrieve schema" >>)
                          /\ final_response' = SchemaFailedResponse
                          /\ UNCHANGED << rag_schema, rag_database, schema_info >>
    /\ pc' = RetrieveSchemaEdge
    /\ UNCHANGED << session, parked, max_retries, has_classifier, has_responder, user_query,
                    query_type, sql_query, validation_error, execution_error,
                    query_results, retry_count >>

\* _generate_sql_node; state["schema_info"] raises KeyError when the key is absent
GenerateSqlNode ==
    /\ pc = "generate_sql"
    /\ LET step_num == 3 + (retry_count * 2)
           st0 == IF retry_count > 0
                  THEN LogStep(steps, step_num, "SQL Generation (Retry)", "in_progress",
                               << "Regenerating SQL query..." >>)
                  ELSE LogStep(steps, step_num, "SQL Generation", "in_progress",
                               << "Generating SQL query from natural language..." >>)
       IN  IF schema_info = Absent
           THEN /\ steps' = st0
                /\ pc' = "raised"
                /\ trace' = Append(trace, Ran("generate_sql", << "format_schema_for_context" >>,
                                              sql_query, sql_query, FALSE, None))
                /\ UNCHANGED << sql_query, final_response >>
           ELSE \E raw \in RawResponses, throws \in BOOLEAN :
                  LET generated == GenerateSql(raw, throws)
                  IN  /\ IF ~Truthy(generated)
                         THEN /\ steps' = LogStep(st0, step_num, "SQL Generation", "error",
                                                  << "Failed to generate SQL query" >>)
                              /\ final_response' = GenerationFailedResponse
                              /\ UNCHANGED sql_query
                         ELSE /\ sql_query' = generated
                              /\ steps' = LogStep(st0, step_num, "SQL Generation", "completed",
                                                  << "Generated SQL query:" >> \o generated)
                              /\ UNCHANGED final_response
                      /\ pc' = GenerateSqlEdge
                      /\ trace' = Append(trace,
                             RanWith("generate_sql",
                                     << "format_schema_for_context", "generate_sql" >>,
                                     sql_query, sql_query', Truthy(generated), generated,
                                     << schema_info, rag_schema, rag_database >>))
    /\ UNCHANGED << session, parked, max_retries, has_classifier, has_responder,
                    rag_schema, rag_database,
                    user_query, query_type, schema_info, validation_error,
                    execution_error, query_results, retry_count >>

ValidationName == "SQL Validation (Input Guardrails)"

\* _validate_sql_node, then _should_retry_validation
ValidateSqlNode ==
    /\ pc = "validate_sql"
    /\ LET step_num == 3 + (retry_count * 2) + 1
           st0 == LogStep(steps, step_num, ValidationName, "in_progress",
                          << "Validating SQL query for security and syntax..." >>)
       IN  IF ValidateRaises(sql_query)
           THEN /\ steps' = st0
                /\ pc' = "raised"
                /\ trace' = Append(trace, Ran("validate_sql", << "validate_query" >>,
                                              sql_query, sql_query, FALSE, None))
                /\ UNCHANGED << validation_error, final_response >>
           ELSE LET verdict == validate_query(sql_query)
                    route == ShouldRetryValidation(verdict.error, retry_count, final_response)
                IN  /\ steps' = IF ~verdict.ok
                                THEN LogStep(st0, step_num, ValidationName, "error",
                                             << "Validation failed:" >> \o verdict.error)
                                ELSE LogStep(st0, step_num, ValidationName, "completed",
                                             << "SQL query passed validation" >>)
                    /\ validation_error' = verdict.error
                    /\ final_response' = route.final_response
                    /\ pc' = route.to
                    /\ trace' = Append(trace, Ran("validate_sql", << "validate_query" >>,
                                                  sql_query, sql_query, verdict.ok,
                                                  verdict.error))
    /\ UNCHANGED << session, parked, max_retries, has_classifier, has_responder,
                    rag_schema, rag_database,
                    user_query, query_type, schema_info, sql_query,
                    execution_error, query_results, retry_count >>

ExecutionName == "Query Execution (DB Client Tool)"

\* _execute_query_node without its early return
ExecuteNeverSkipped(verr, rc) == FALSE

\* the early return of _execute_query_node
ExecuteSkipped(verr, rc) == Truthy(verr) /\ rc >= max_retries

\* _execute_query_node, then _should_retry_execution
ExecuteQueryNode ==
    /\ pc = "execute_query"
    /\ LET step_num == 3 + (retry_count * 2) + 2
           st0 == LogStep(steps, step_num, ExecutionName, "in_progress",
                          << "Executing SQL query..." >>)
       IN  IF ExecuteSkipped(validation_error, retry_count)
           THEN LET route == ShouldRetryExecution(execution_error, validation_error,
                                                  retry_count, query_results, final_response)
                IN  /\ final_response' = route.final_response
                    /\ pc' = route.to
                    /\ trace' = Append(trace, Ran("execute_query", << >>,
                                                  sql_query, sql_query, FALSE, None))
                    /\ UNCHANGED << steps, query_results, execution_error >>
           ELSE \E out \in ExecOutcomes :
                  LET succeeded == out.success /\ out.columns
                      results == IF succeeded THEN out.rows ELSE query_results
                      eerr == IF succeeded THEN None ELSE out.error
                      route == ShouldRetryExecution(eerr, validation_error, retry_count,
                                                    results, final_response)
                  IN  /\ steps' = IF succeeded
                                  THEN LogStep(st0, step_num, ExecutionName, "completed",
                                               << "Query executed successfully. Rows:",
                                                  ToString(out.rows) >>)
                                  ELSE LogStep(st0, step_num, ExecutionName, "error",
                                               << "Execution failed:" >> \o out.error)
                      /\ query_results' = results
                      /\ execution_error' = eerr
                      /\ final_response' = route.final_response
                      /\ pc' = route.to
                      /\ trace' = Append(trace, Ran("execute_query", << "execute_query" >>,
                                                    sql_query, sql_query, succeeded,
                                                    out.error))
    /\ UNCHANGED << session, parked, max_retries, has_classifier, has_responder,
                    rag_schema, rag_database,
                    user_query, query_type, schema_info, sql_query,
                    validation_error, retry_count >>

\* _fix_query_node storing whatever _fix_query returned
FixAlwaysApplies(fixed_query, failed_query) == TRUE

\* the test of _fix_query_node that decides whether the repair is taken
FixApplies(fixed_query, failed_query) ==
    Truthy(fixed_query) /\ fixed_query # failed_query

\* _fix_query_node counting the attempt twice
FixRetryCountTwice(rc) == rc + 2

\* retry_count as _fix_query_node leaves it
FixRetryCount(rc) == rc + 1

\* the step number of _fix_query_node taken from the incremented retry_count
FixStepNumAfterIncrement(rc) == 3 + (FixRetryCount(rc) * 2) + 2

\* the step number of _fix_query_node, from the retry_count it was entered with
FixStepNum(rc) == 3 + (rc * 2) + 2

\* _fix_query_node
FixQueryNode ==
    /\ pc = "fix_query"
    /\ retry_count' = FixRetryCount(retry_count)
    /\ LET step_num == FixStepNum(retry_count)
           st0 == LogStep(steps, step_num, "Query Fix", "in_progress",
                          << "Attempting to fix SQL query...", "attempt",
                             ToString(retry_count + 1), "of", ToString(max_retries) >>)
           failed_query == sql_query
           error == Or(execution_error, validation_error)
       IN  \E raw \in FixResponses, throws \in BOOLEAN :
             LET fixed_query == FixQuery(raw, throws)
             IN  /\ IF FixApplies(fixed_query, failed_query)
                    THEN /\ sql_query' = fixed_query
                         /\ steps' = LogStep(st0, step_num, "Query Fix", "completed",
                                             << "Generated fixed query:" >> \o fixed_query)
                    ELSE /\ steps' = LogStep(st0, step_num, "Query Fix", "error",
                                             << "Could not fix query" >>)
                         /\ UNCHANGED sql_query
                 /\ trace' = Append(trace, RanWith("fix_query", << "_fix_query" >>,
                                                   failed_query, sql_query',
                                                   FixApplies(fixed_query, failed_query),
                                                   fixed_query, error))
    /\ pc' = FixQueryEdge
    /\ UNCHANGED << session, parked, max_retries, has_classifier, has_responder,
                    rag_schema, rag_database,
                    user_query, query_type, schema_info, validation_error,
                    execution_error, query_results, final_response >>

\* _generate_response_node
GenerateResponseNode ==
    /\ pc = "generate_response"
    /\ LET step_num == 3 + (retry_count * 2) + 3
           st0 == LogStep(steps, step_num, "Response Generation", "in_progress",
                          << "Generating natural language response..." >>)
           st1 == LogStep(st0, step_num, "Response Generation", "completed",
                          << "Response generated successfully" >>)
       IN  IF query_results # NoResults
           THEN /\ steps' = st1
                /\ IF has_responder
                   THEN \E throws \in BOOLEAN, response \in Responses :
                          /\ final_response' =
                                 IF throws THEN CountResponse(query_results) ELSE response
                          /\ trace' = Append(trace,
                                 Ran("generate_response", << "generate_response" >>,
                                     sql_query, sql_query, ~throws,
                                     IF throws THEN None ELSE response))
                   ELSE /\ final_response' = CountResponse(query_results)
                        /\ trace' = Append(trace, Ran("generate_response", << >>,
                                                      sql_query, sql_query, TRUE, None))
           ELSE /\ steps' = st0
                /\ trace' = Append(trace, Ran("generate_response", << >>,
                                              sql_query, sql_query, FALSE, None))
                /\ UNCHANGED final_response
    /\ pc' = GenerateResponseEdge
    /\ UNCHANGED << session, parked, max_retries, has_classifier, has_responder,
                    rag_schema, rag_database,
                    user_query, query_type, schema_info, sql_query,
                    validation_error, execution_error, query_results, retry_count >>

-----------------------------------------------------------------------------
(* WorkflowAgent.run: the initial state and the graph *)

Init ==
    /\ pc = "classify_query"
    /\ max_retries \in 0..MaxRetriesBound
    /\ has_classifier \in BOOLEAN
    /\ has_responder \in BOOLEAN
    /\ rag_schema \in { "S1", Absent }
    /\ rag_database = (IF rag_schema = Absent THEN Absent ELSE "db1")
    /\ user_query \in UserQueries
    /\ query_type = Absent
    /\ schema_info = Absent
    /\ sql_query = None
    /\ validation_error = None
    /\ execution_error = None
    /\ query_results = NoResults
    /\ retry_count = 0
    /\ steps = << >>
    /\ final_response = None
    /\ trace = << >>
    /\ parked = << >>
    /\ session = NoSession

Next ==
    \/ ClassifyQueryNode
    \/ RetrieveSchemaNode
    \/ GenerateSqlNode
    \/ ValidateSqlNode
    \/ ExecuteQueryNode
    \/ FixQueryNode
    \/ GenerateResponseNode

Spec == Init /\ [][Next]_vars

\* a node of the graph, once it can run, does run
FairSpec == Spec /\ WF_vars(Next)

-----------------------------------------------------------------------------
(* Reading the history *)

Entries(node) == { i \in 1..Len(trace) : trace[i].node = node }

Called(i, fn) == \E k \in 1..Len(trace[i].calls) : trace[i].calls[k] = fn

CallsOf(fn) == { i \in 1..Len(trace) : Called(i, fn) }

\* the most recent run of validate_sql before entry i, 0 when there is none
LastValidateBefore(i) ==
    LET before == { j \in Entries("validate_sql") : j < i }
    IN  IF before = {} THEN 0 ELSE CHOOSE j \in before : \A k \in before : k <= j

\* a repair that returned nothing, or the failing SQL itself
NoProgress(i) ==
    /\ trace[i].node = "fix_query"
    /\ (~Truthy(trace[i].ret) \/ trace[i].ret = trace[i].sql_in)

-----------------------------------------------------------------------------
(* WorkflowAgent._classify_query on its own: one behaviour is one call of
   the heuristic on an utterance put together from a few pieces *)

HeuristicPieces ==
    { << "H", "i" >>, << "h", "e", "y" >>, << "S", "h", "o", "w" >>,
      << "g", "e", "t" >>, << "w", "h", "i", "c", "h" >>, << " " >>,
      << "x" >>, << "t" >> }

RECURSIVE Utterances(_)
Utterances(n) ==
    IF n = 0 THEN { << >> }
    ELSE Utterances(n - 1)
         \cup { u \o p : u \in Utterances(n - 1), p \in HeuristicPieces }

\* the fields of the state that a call of a pure function leaves alone
Untouched ==
    /\ max_retries = 0
    /\ has_classifier = FALSE
    /\ has_responder = FALSE
    /\ rag_schema = Absent
    /\ rag_database = Absent
    /\ schema_info = Absent
    /\ execution_error = None
    /\ query_results = NoResults
    /\ retry_count = 0
    /\ steps = << >>
    /\ final_response = None
    /\ parked = << >>

HeuristicInit ==
    /\ pc = "_classify_query"
    /\ user_query \in Utterances(MaxPieces)
    /\ query_type = Absent
    /\ sql_query = None
    /\ validation_error = None
    /\ trace = << >>
    /\ Untouched
    /\ session = NoSession

HeuristicCall ==
    /\ pc = "_classify_query"
    /\ query_type' = ClassifyQuery(user_query)
    /\ pc' = "returned"
    /\ UNCHANGED << session, max_retries, has_classifier, has_responder, rag_schema,
                    rag_database, user_query, schema_info, sql_query,
                    validation_error, execution_error, query_results,
                    retry_count, steps, final_response, trace, parked >>

HeuristicNext == HeuristicCall

HeuristicSpec == HeuristicInit /\ [][HeuristicNext]_vars

-----------------------------------------------------------------------------
(* Two invocations of run on one WorkflowAgent.  Each call of run builds its
   own AgentState and hands it to compiled_graph.invoke; the agent's
   attributes, the schema cache among them, are shared.  The state variables
   hold the AgentState of the invocation that is running, parked the one of
   the invocation that is not; Switch hands the processor over between two
   nodes. *)

\* retries allowed to the two concurrent invocations
ConcRetriesBound == 1

\* the AgentState of the invocation that is running, with its place in the
\* graph and its history
Running ==
    [pc |-> pc, user_query |-> user_query, query_type |-> query_type,
     schema_info |-> schema_info, sql_query |-> sql_query,
     validation_error |-> validation_error, execution_error |-> execution_error,
     query_results |-> query_results, retry_count |-> retry_count,
     steps |-> steps, final_response |-> final_response, trace |-> trace]

\* initial_state of run, before the graph starts on it
InitialState(q) ==
    [pc |-> "classify_query", user_query |-> q, query_type |-> Absent,
     schema_info |-> Absent, sql_query |-> None, validation_error |-> None,
     execution_error |-> None, query_results |-> NoResults, retry_count |-> 0,
     steps |-> << >>, final_response |-> None, trace |-> << >>]

\* the retry counter kept on the agent: an invocation that resumes finds the
\* count the other one left
SuspendedSharingRetryCount(st) == [st EXCEPT !.retry_count = retry_count]

\* what an invocation finds when it resumes: the AgentState it was working on
Suspended(st) == st

\* the answers the collaborators give in the concurrent runs: the generator
\* and the repair answer "SELECT x", "DROP x" or nothing, the executor a
\* 3-row result or the error "e1"
ConcAnswer(entry) ==
    /\ entry.ret \in { None, << "SELECT", "x" >>, << "DROP", "x" >>, << "e1" >>,
                      << "Security violation: keyword detected", "DROP" >> }
    /\ entry.node = "execute_query" => (entry.ok => query_results' = 3)

ConcInit ==
    /\ pc = "classify_query"
    /\ max_retries \in 0..ConcRetriesBound
    /\ has_classifier = FALSE
    /\ has_responder = FALSE
    /\ rag_schema \in { "S1", Absent }
    /\ rag_database = (IF rag_schema = Absent THEN Absent ELSE "db1")
    /\ user_query = << "S", "h", "o", "w", " ", "x" >>
    /\ query_type = Absent
    /\ schema_info = Absent
    /\ sql_query = None
    /\ validation_error = None
    /\ execution_error = None
    /\ query_results = NoResults
    /\ retry_count = 0
    /\ steps = << >>
    /\ final_response = None
    /\ trace = << >>
    /\ \E q \in UserQueries : parked = << InitialState(q) >>
    /\ session = NoSession

\* one node of the invocation that is running
RunNode == Next /\ ConcAnswer(trace'[Len(trace')])

\* the other invocation gets the processor
Switch ==
    /\ parked[1].pc \notin { "end", "raised" }
    /\ LET st == Suspended(parked[1])
       IN  /\ pc' = st.pc
           /\ user_query' = st.user_query
           /\ query_type' = st.query_type
           /\ schema_info' = st.schema_info
           /\ sql_query' = st.sql_query
           /\ validation_error' = st.validation_error
           /\ execution_error' = st.execution_error
           /\ query_results' = st.query_results
           /\ retry_count' = st.retry_count
           /\ steps' = st.steps
           /\ final_response' = st.final_response
           /\ trace' = st.trace
    /\ parked' = << Running >>
    /\ UNCHANGED << session, max_retries, has_classifier, has_responder, rag_schema,
                    rag_database >>

ConcNext ==
    \/ RunNode
    \/ Switch

ConcurrentSpec == ConcInit /\ [][ConcNext]_vars

-----------------------------------------------------------------------------
(* SchemaRAG.load_schema and SchemaRAG.clear called by the application while
   a run is in flight. load_schema stores schema_info and then database_name
   in two statements, with nothing to keep a reader out in between; the
   caller that is between the two is kept in parked. *)

\* the (schema_info, database_name) arguments of the application's loads
Loads == { << "S1", "db1" >>, << "S2", "db2" >> }

\* the caller of load_schema after line 44, before line 45
Loading(load) == [pc |-> "load_schema", database_name |-> load[2]]

\* self.schema_info = schema_info
LoadSchemaInfo ==
    /\ parked = << >>
    /\ \E load \in Loads :
         /\ rag_schema' = load[1]
         /\ parked' = << Loading(load) >>
    /\ UNCHANGED << session, pc, max_retries, has_classifier, has_responder, rag_database,
                    user_query, query_type, schema_info, sql_query,
                    validation_error, execution_error, query_results,
                    retry_count, steps, final_response, trace >>

\* self.database_name = database_name
LoadDatabaseName ==
    /\ parked # << >>
    /\ parked[1].pc = "load_schema"
    /\ rag_database' = parked[1].database_name
    /\ parked' = << >>
    /\ UNCHANGED << session, pc, max_retries, has_classifier, has_responder, rag_schema,
                    user_query, query_type, schema_info, sql_query,
                    validation_error, execution_error, query_results,
                    retry_count, steps, final_response, trace >>

\* SchemaRAG.clear without a knowledge graph: self.schema_info = None
Clear ==
    /\ rag_schema # Absent
    /\ rag_schema' = Absent
    /\ UNCHANGED << session, pc, max_retries, has_classifier, has_responder, rag_database,
                    user_query, query_type, schema_info, sql_query,
                    validation_error, execution_error, query_results,
                    retry_count, steps, final_response, trace, parked >>

\* one run of a database question, with one repair allowed
ReloadInit ==
    /\ Init
    /\ max_retries = 1
    /\ ~has_classifier
    /\ ~has_responder
    /\ user_query = << "S", "h", "o", "w", " ", "x" >>

ReloadNext ==
    \/ Next
    \/ LoadSchemaInfo
    \/ LoadDatabaseName
    \/ Clear

ReloadSpec == ReloadInit /\ [][ReloadNext]_vars

\* the cache holds what one call of load_schema stored: an application load,
\* or the workflow's own load_schema(schema_info), which names no database
FromOneLoad(schema, database) ==
    \/ << schema, database >> \in Loads
    \/ schema \in Schemas /\ database = Absent

-----------------------------------------------------------------------------
(* A collaborator that does not answer. No call of the workflow is given a
   timeout (ollama.chat, PostgresClient.execute_query, the classifier and
   the response generator are called and waited for), so the node that made
   the call stays in it: pc = "blocked", with what the node wrote before
   the call. *)

\* the in_progress record a node logs before it calls its collaborator
StepsBeforeCall ==
    CASE pc = "classify_query" ->
             LogStep(steps, 1, ClassifyName, "in_progress",
                     << "Checking query type and guardrails..." >>)
      [] pc = "generate_sql" ->
             IF retry_count > 0
             THEN LogStep(steps, 3 + (retry_count * 2), "SQL Generation (Retry)",
                          "in_progress", << "Regenerating SQL query..." >>)
             ELSE LogStep(steps, 3 + (retry_count * 2), "SQL Generation",
                          "in_progress",
                          << "Generating SQL query from natural language..." >>)
      [] pc = "execute_query" ->
             LogStep(steps, 3 + (retry_count * 2) + 2, ExecutionName, "in_progress",
                     << "Executing SQL query..." >>)
      [] pc = "fix_query" ->
             LogStep(steps, FixStepNum(retry_count), "Query Fix", "in_progress",
                     << "Attempting to fix SQL query...", "attempt",
                        ToString(retry_count + 1), "of", ToString(max_retries) >>)
      [] pc = "generate_response" ->
             LogStep(steps, 3 + (retry_count * 2) + 3, "Response Generation",
                     "in_progress", << "Generating natural language response..." >>)

\* the nodes that are about to call a collaborator, with the call they make
CallAbout ==
    CASE pc = "classify_query" /\ has_classifier -> << "classify_query" >>
      [] pc = "generate_sql" /\ schema_info # Absent -> << "generate_sql" >>
      [] pc = "execute_query" /\ ~ExecuteSkipped(validation_error, retry_count)
             -> << "execute_query" >>
      [] pc = "fix_query" -> << "_fix_query" >>
      [] pc = "generate_response" /\ has_responder /\ query_results # NoResults
             -> << "generate_response" >>
      [] OTHER -> << >>

CollaboratorHangs ==
    /\ CallAbout # << >>
    /\ pc' = "blocked"
    /\ steps' = StepsBeforeCall
    /\ retry_count' = (IF pc = "fix_query" THEN FixRetryCount(retry_count)
                       ELSE retry_count)
    /\ trace' = Append(trace, Ran(pc, CallAbout, sql_query, sql_query, FALSE,
                                  << "no answer" >>))
    /\ UNCHANGED << session, parked, max_retries, has_classifier, has_responder,
                    rag_schema, rag_database, user_query, query_type, schema_info,
                    sql_query, validation_error, execution_error, query_results,
                    final_response >>

\* runs with at most one repair
HangInit == Init /\ max_retries <= 1

HangNext ==
    \/ Next
    \/ CollaboratorHangs

\* a node that can run does run; whether a collaborator answers is up to it
HangSpec == HangInit /\ [][HangNext]_vars /\ WF_vars(Next)

-----------------------------------------------------------------------------
(* InputGuardrails.validate_query applied to a SQL string *)

\* the longest SQL string given to the validator, in pieces
MaxSqlPieces == 4

SqlPieces ==
    { << "SELECT", "x" >>, << "select", "x" >>, << "x" >>, << ";" >>,
      << "#", "x" >>, << "FROM", "x" >>, << "DROP", "x" >>, << "drop", "x" >>,
      << "dropped" >> }

RECURSIVE SqlStrings(_)
SqlStrings(n) ==
    IF n = 0 THEN { << >> }
    ELSE SqlStrings(n - 1) \cup { s \o p : s \in SqlStrings(n - 1), p \in SqlPieces }

GuardInit ==
    /\ pc = "validate_query"
    /\ sql_query \in SqlStrings(MaxSqlPieces) \cup { None }
    /\ user_query = << >>
    /\ query_type = Absent
    /\ validation_error = None
    /\ trace = << >>
    /\ Untouched
    /\ session = NoSession

\* validate_query(sql_query): the pair it returns, or the exception
GuardCall ==
    /\ pc = "validate_query"
    /\ IF ValidateRaises(sql_query)
       THEN /\ pc' = "raised"
            /\ trace' = << Ran("validate_query", << >>, sql_query, sql_query,
                               FALSE, None) >>
            /\ UNCHANGED validation_error
       ELSE /\ pc' = "returned"
            /\ validation_error' = validate_query(sql_query).error
            /\ trace' = << Ran("validate_query", << >>, sql_query, sql_query,
                               validate_query(sql_query).ok,
                               validate_query(sql_query).error) >>
    /\ UNCHANGED << session, max_retries, has_classifier, has_responder, rag_schema,
                    rag_database, user_query, query_type, schema_info, sql_query,
                    execution_error, query_results, retry_count, steps,
                    final_response, parked >>

GuardNext == GuardCall

GuardSpec == GuardInit /\ [][GuardNext]_vars

\* the statements the database runs when cursor.execute is given q: the
\* simple query protocol splits the string at each ";", and to PostgreSQL
\* "#" is an operator, not the start of a comment
RECURSIVE ExecutedStatements(_)
ExecutedStatements(q) ==
    IF q = << >> THEN << >>
    ELSE IF \E i \in 1..Len(q) : q[i] = ";"
    THEN LET i == CHOOSE n \in 1..Len(q) :
                      q[n] = ";" /\ \A m \in 1..(n - 1) : q[m] # ";"
         IN  << SubSeq(q, 1, i - 1) >> \o ExecutedStatements(SubSeq(q, i + 1, Len(q)))
    ELSE << q >>

-----------------------------------------------------------------------------
(* Two callers of InputGuardrails.validate_query, each calling it several
   times, interleaved between check_sql_injection and validate_select_only.
   sql_query is the parameter `query` of the call in progress, trace the
   results the caller has received; the caller that is not running is kept
   in parked. *)

\* the number of calls each caller makes
MaxCalls == 2

ValidatorArguments ==
    { << >>, << "SELECT", "x" >>, << "x", ";", "x" >>, << "DROP", "x" >>,
      << "SELECT", "x", "#", "x" >> }

Pending == << "<pending>" >>

\* a call of validate_query(q) that has not returned yet
CallOf(q) == Ran("validate_query", << >>, q, q, FALSE, Pending)

\* the frame of the running caller
Frame == [pc |-> pc, query |-> sql_query, trace |-> trace]

\* the parameter kept in one place for all callers: a caller that resumes
\* finds the query of the call that ran last
ResumedSharingQuery(fr) == [fr EXCEPT !.query = sql_query]

\* what a caller finds when it resumes: its own frame
Resumed(fr) == fr

Returns(result) ==
    /\ trace' = [trace EXCEPT ![Len(trace)] =
                    [@ EXCEPT !.ok = result.ok, !.ret = result.error]]
    /\ pc' = "returned"

PureInit ==
    /\ pc = "check_sql_injection"
    /\ sql_query \in ValidatorArguments
    /\ trace = << CallOf(sql_query) >>
    /\ \E q \in ValidatorArguments :
         parked = << [pc |-> "check_sql_injection", query |-> q,
                      trace |-> << CallOf(q) >>] >>
    /\ user_query = << >>
    /\ query_type = Absent
    /\ validation_error = None
    /\ max_retries = 0
    /\ has_classifier = FALSE
    /\ has_responder = FALSE
    /\ rag_schema = Absent
    /\ rag_database = Absent
    /\ schema_info = Absent
    /\ execution_error = None
    /\ query_results = NoResults
    /\ retry_count = 0
    /\ steps = << >>
    /\ final_response = None
    /\ session = NoSession

\* is_safe, error = check_sql_injection(query); if not is_safe: return
PureCheckInjection ==
    /\ pc = "check_sql_injection"
    /\ IF check_sql_injection(sql_query).ok
       THEN pc' = "validate_select_only" /\ UNCHANGED trace
       ELSE Returns(check_sql_injection(sql_query))
    /\ UNCHANGED << session, max_retries, has_classifier, has_responder, rag_schema,
                    rag_database, user_query, query_type, schema_info, sql_query,
                    validation_error, execution_error, query_results,
                    retry_count, steps, final_response, parked >>

\* is_select, error = validate_select_only(query); return
PureSelectOnly ==
    /\ pc = "validate_select_only"
    /\ Returns(validate_select_only(sql_query))
    /\ UNCHANGED << session, max_retries, has_classifier, has_responder, rag_schema,
                    rag_database, user_query, query_type, schema_info, sql_query,
                    validation_error, execution_error, query_results,
                    retry_count, steps, final_response, parked >>

\* the caller calls validate_query again
PureCallAgain ==
    /\ pc = "returned"
    /\ Len(trace) < MaxCalls
    /\ \E q \in ValidatorArguments :
         /\ sql_query' = q
         /\ trace' = Append(trace, CallOf(q))
    /\ pc' = "check_sql_injection"
    /\ UNCHANGED << session, max_retries, has_classifier, has_responder, rag_schema,
                    rag_database, user_query, query_type, schema_info,
                    validation_error, execution_error, query_results,
                    retry_count, steps, final_response, parked >>

\* the other caller gets the processor
PureSwitch ==
    /\ parked[1].pc # "returned" \/ Len(parked[1].trace) < MaxCalls
    /\ LET fr == Resumed(parked[1])
       IN  /\ pc' = fr.pc
           /\ sql_query' = fr.query
           /\ trace' = fr.trace
    /\ parked' = << Frame >>
    /\ UNCHANGED << session, max_retries, has_classifier, has_responder, rag_schema,
                    rag_database, user_query, query_type, schema_info,
                    validation_error, execution_error, query_results,
                    retry_count, steps, final_response >>

PureNext ==
    \/ PureCheckInjection
    \/ PureSelectOnly
    \/ PureCallAgain
    \/ PureSwitch

PureSpec == PureInit /\ [][PureNext]_vars

\* every call that has returned gave the caller what validate_query gives
\* for the argument of that call
AnsweredForOwnArgument(tr) ==
    \A c \in 1..Len(tr) :
        tr[c].ret # Pending
        => /\ tr[c].ok = validate_query(tr[c].sql_in).ok
           /\ tr[c].ret = validate_query(tr[c].sql_in).error

\* the results of all calls made so far, by either caller
AllCalls == { trace[c] : c \in 1..Len(trace) }
            \cup { parked[1].trace[c] : c \in 1..Len(parked[1].trace) }

-----------------------------------------------------------------------------
(* The chat session of frontend/app.py: st.session_state across the reruns
   of main. SchemaRAG objects are told apart by the order of their creation;
   workflow_agent is the SchemaRAG its WorkflowAgent was constructed with,
   0 for None. Each run of the workflow is recorded in trace with the
   SchemaRAG of the agent and the SchemaRAG of the session at that time. *)

\* the number of SchemaRAG objects a session creates
MaxSchemaRags == 3

\* the number of questions asked in a session
MaxChats == 2

\* session state initialised; the Neo4j auto-connect of the first load may
\* already have replaced the SchemaRAG
SessionInit ==
    /\ pc = "main"
    /\ \E auto \in BOOLEAN :
         session = [schema_rag |-> IF auto THEN 2 ELSE 1, workflow_agent |-> 0,
                    connected |-> FALSE, schema_loaded |-> FALSE,
                    neo4j_connected |-> auto, sql_generator |-> FALSE]
    /\ user_query = << >>
    /\ query_type = Absent
    /\ sql_query = None
    /\ validation_error = None
    /\ trace = << >>
    /\ Untouched

SessionFrame ==
    UNCHANGED << pc, max_retries, has_classifier, has_responder, rag_schema,
                 rag_database, user_query, query_type, schema_info, sql_query,
                 validation_error, execution_error, query_results, retry_count,
                 steps, final_response, parked >>

\* "Connect to Neo4j": on success a new SchemaRAG with the knowledge graph
Neo4jConnect ==
    /\ session.schema_rag < MaxSchemaRags
    /\ \E success \in BOOLEAN :
         session' = IF success
                    THEN [session EXCEPT !.neo4j_connected = TRUE,
                                         !.schema_rag = @ + 1]
                    ELSE [session EXCEPT !.neo4j_connected = FALSE]
    /\ UNCHANGED trace
    /\ SessionFrame

\* "Disconnect Neo4j": a new in-memory SchemaRAG
Neo4jDisconnect ==
    /\ session.neo4j_connected
    /\ session.schema_rag < MaxSchemaRags
    /\ session' = [session EXCEPT !.neo4j_connected = FALSE, !.schema_rag = @ + 1]
    /\ UNCHANGED trace
    /\ SessionFrame

\* "Connect to Database": on success the schema is loaded into the session's
\* current SchemaRAG
DbConnect ==
    /\ \E success \in BOOLEAN, schema \in BOOLEAN :
         session' = IF success
                    THEN [session EXCEPT !.connected = TRUE,
                                         !.schema_loaded = (@ \/ schema)]
                    ELSE [session EXCEPT !.connected = FALSE]
    /\ UNCHANGED trace
    /\ SessionFrame

\* "Disconnect": reset_connection
ResetConnection ==
    /\ session.connected
    /\ session' = [session EXCEPT !.connected = FALSE, !.schema_loaded = FALSE,
                                  !.workflow_agent = 0]
    /\ UNCHANGED trace
    /\ SessionFrame

\* "Load Model"
LoadModel ==
    /\ session' = [session EXCEPT !.sql_generator = TRUE, !.workflow_agent = 0]
    /\ UNCHANGED trace
    /\ SessionFrame

\* a question in the chat input: the WorkflowAgent is created if there is
\* none, and run
ChatRun ==
    /\ session.connected
    /\ session.schema_loaded
    /\ session.sql_generator
    /\ Len(trace) < MaxChats
    /\ LET agent == IF session.workflow_agent = 0 THEN session.schema_rag
                    ELSE session.workflow_agent
       IN  /\ session' = [session EXCEPT !.workflow_agent = agent]
           /\ trace' = Append(trace, RanWith("run", << "WorkflowAgent.run" >>,
                                             None, None, TRUE, None,
                                             << agent, session.schema_rag >>))
    /\ SessionFrame

SessionNext ==
    \/ Neo4jConnect
    \/ Neo4jDisconnect
    \/ DbConnect
    \/ ResetConnection
    \/ LoadModel
    \/ ChatRun

SessionSpec == SessionInit /\ [][SessionNext]_vars

-----------------------------------------------------------------------------
(* OutputGuardrails.sanitize_results applied to one results dictionary. A
   dictionary is a function from the keys it has; a column name is a
   sequence of characters. query_results is the dictionary, which the
   function changes in place and returns; every application is recorded in
   trace with its max_rows and the dictionary returned. *)

\* the number of rows of a result
MaxRowCount == 3

\* the largest max_rows passed
MaxRowsArgument == 2

\* the number of characters of a column name
MaxNameLen == 2

\* the number of applications to one dictionary
MaxApplications == 2

\* results[key] = value
SetItem(results, key, value) == (key :> value) @@ results

\* characters of column names; [a-zA-Z0-9_] matches the first two
NameChars == { "a", "_", " ", "-" }

WordChars == { "a", "_" }

ColumnNames ==
    UNION { [1..n -> NameChars] : n \in 1..MaxNameLen }

\* what execute_query returns on success, with and without 'columns', and
\* the values sanitize_results hands back untouched
ResultDicts ==
    LET rows == UNION { [1..n -> { "r1", "r2" }] : n \in 0..MaxRowCount }
        cols == { << >> } \cup { << c >> : c \in ColumnNames }
    IN  { [rows |-> r, columns |-> c] : r \in rows, c \in cols }
        \cup { [rows |-> r] : r \in rows }
        \cup { [affected_rows |-> 1], << >> }

\* rows[:max_rows], max_rows >= 0
Slice(rows, max_rows) ==
    SubSeq(rows, 1, IF max_rows < Len(rows) THEN max_rows ELSE Len(rows))

\* re.sub(r'[^a-zA-Z0-9_]', '_', str(col))
sanitize_col(col) ==
    [i \in 1..Len(col) |-> IF col[i] \in WordChars THEN col[i] ELSE "_"]

\* the "Limit rows" block
limit_rows(results, max_rows) ==
    IF Len(results["rows"]) > max_rows
    THEN SetItem(SetItem(SetItem(results, "rows", Slice(results["rows"], max_rows)),
                         "truncated", TRUE),
                 "original_row_count", Len(results["rows"]))
    ELSE SetItem(results, "truncated", FALSE)

\* the "Sanitize column names" block
sanitize_columns(results) ==
    IF "columns" \in DOMAIN results
    THEN SetItem(results, "columns",
                 [i \in 1..Len(results["columns"]) |->
                      sanitize_col(results["columns"][i])])
    ELSE results

sanitize_results(results, max_rows) ==
    IF DOMAIN results = {} \/ "rows" \notin DOMAIN results
    THEN results
    ELSE sanitize_columns(limit_rows(results, max_rows))

SanitizeInit ==
    /\ pc = "sanitize_results"
    /\ query_results \in ResultDicts
    /\ user_query = << >>
    /\ query_type = Absent
    /\ sql_query = None
    /\ validation_error = None
    /\ execution_error = None
    /\ trace = << >>
    /\ max_retries = 0
    /\ has_classifier = FALSE
    /\ has_responder = FALSE
    /\ rag_schema = Absent
    /\ rag_database = Absent
    /\ schema_info = Absent
    /\ retry_count = 0
    /\ steps = << >>
    /\ final_response = None
    /\ parked = << >>
    /\ session = NoSession

\* results = sanitize_results(results, max_rows)
SanitizeCall ==
    /\ pc = "sanitize_results"
    /\ Len(trace) < MaxApplications
    /\ \E max_rows \in 0..MaxRowsArgument :
         /\ query_results' = sanitize_results(query_results, max_rows)
         /\ trace' = Append(trace,
                            RanWith("sanitize_results", << "sanitize_results" >>,
                                    None, None, TRUE, query_results',
                                    << max_rows >>))
    /\ UNCHANGED << session, pc, max_retries, has_classifier, has_responder,
                    rag_schema, rag_database, user_query, query_type,
                    schema_info, sql_query, validation_error, execution_error,
                    retry_count, steps, final_response, parked >>

SanitizeNext == SanitizeCall

SanitizeSpec == SanitizeInit /\ [][SanitizeNext]_vars

\* the dictionary returned by the k-th application
Sanitized(k) == trace[k].ret

\* an application with the max_rows of the application before it
Reapplied(k) ==
    /\ k \in 2..Len(trace)
    /\ trace[k].arg = trace[k - 1].arg

\* the value under a key, with a marker for a key that is not set
Get(results, key) ==
    IF key \in DOMAIN results THEN << results[key] >> ELSE << >>

-----------------------------------------------------------------------------
(* Properties *)

\* C1: every call of db_client.execute_query is made with the sql_query on
\* which the most recent run of Validate returned valid, and sql_query did
\* not change between that validation and the call; on the first attempt
\* and on every repair iteration.
C1_ExecuteOnlyValidated ==
    \A i \in CallsOf("execute_query") :
        LET j == LastValidateBefore(i)
        IN  /\ j > 0
            /\ trace[j].ok
            /\ trace[j].sql_in = trace[i].sql_in
            /\ \A k \in j..(i - 1) : trace[k].sql_out = trace[j].sql_in

\* C1 witness: the executor was called in a repair iteration
C1_Witness ==
    \E i \in CallsOf("execute_query") : \E f \in Entries("fix_query") : f < i

\* C2: run never raises past its boundary, whatever the collaborators do.
C2_RunNeverRaises == pc # "raised"

\* C3: every terminal state returned by run has final_response set to a string.
C3_TerminalHasFinalResponse == pc = "end" => final_response # None

\* C4: once final_response is set the run is over: no further stage runs, no
\* step is appended and final_response is not overwritten.
C4_FinalResponseIsTerminal ==
    [][final_response # None =>
          /\ trace' = trace
          /\ steps' = steps
          /\ final_response' = final_response]_vars

\* C5: in every reachable state 0 <= retry_count <= max_retries.
C5_RetryCountBounded == 0 <= retry_count /\ retry_count <= max_retries

\* C5 witness: the budget is used up, by a validation failure and by an
\* execution failure
C5_Witness ==
    /\ max_retries = MaxRetriesBound
    /\ retry_count = max_retries
    /\ \E i \in Entries("validate_sql") : ~trace[i].ok
    /\ \E i \in CallsOf("execute_query") : ~trace[i].ok

\* C6: retry_count is changed by fix_query alone, by exactly one per entry,
\* so it always equals the number of Repair stages run so far.
C6_RetryCountCountsRepairs ==
    /\ [](retry_count = Cardinality(Entries("fix_query")))
    /\ [][retry_count' # retry_count =>
             pc = "fix_query" /\ retry_count' = retry_count + 1]_vars

\* C6 witness: after two repairs a validation passed and the query was
\* executed, with retry_count still 2
C6_Witness ==
    /\ retry_count = 2
    /\ \E i \in CallsOf("execute_query") :
           /\ \A f \in Entries("fix_query") : f < i
           /\ trace[i - 1].node = "validate_sql"
           /\ trace[i - 1].ok

\* C7: the stage after every Repair is Validate, never Execute or Respond.
C7_RepairThenValidate ==
    \A i \in Entries("fix_query") :
        IF i < Len(trace) THEN trace[i + 1].node = "validate_sql"
        ELSE pc = "validate_sql"

\* C7 witness: a repair has been followed by its validation
C7_Witness ==
    \E i \in Entries("fix_query") : i < Len(trace) /\ trace[i + 1].node = "validate_sql"

\* C8: every run reaches the end state of the graph after finitely many
\* stage transitions.
C8_RunReachesEnd == <>(pc = "end")

\* C9: one budget for both kinds of repair: at most max_retries Repair
\* calls in all, at most one Generate, at most max_retries + 1 Validate and
\* Execute calls each.
C9_SharedRetryBudget ==
    /\ Cardinality(CallsOf("_fix_query")) <= max_retries
    /\ Cardinality(CallsOf("generate_sql")) <= 1
    /\ Cardinality(CallsOf("validate_query")) <= max_retries + 1
    /\ Cardinality(CallsOf("execute_query")) <= max_retries + 1

\* C9 witness: the whole budget went into repairs of both kinds, and
\* Validate ran max_retries + 1 times
C9_Witness ==
    /\ max_retries = MaxRetriesBound
    /\ Cardinality(CallsOf("_fix_query")) = max_retries
    /\ Cardinality(CallsOf("validate_query")) = max_retries + 1
    /\ \E f \in Entries("fix_query") : trace[f - 1].node = "validate_sql"
    /\ \E f \in Entries("fix_query") : trace[f - 1].node = "execute_query"

C11_SchemaUnavailableEndsRun ==
    (\E i \in Entries("retrieve_schema") : ~trace[i].ok) =>
        /\ pc # "raised"
        /\ \A k \in 1..Len(steps) : steps[k].name # "SQL Generation"
        /\ CallsOf("generate_sql") = {}
        /\ pc = "end" => final_response = SchemaFailedResponse

\* C12, as claimed: when the first generation yields nothing the run ends
\* with the generation-failure response: Validate, Execute and Repair are
\* never entered, the generator is not called again, retry_count stays 0.
C12_EmptyGenerationEndsRun ==
    (\E i \in Entries("generate_sql") : Called(i, "generate_sql") /\ ~trace[i].ok) =>
        /\ pc # "raised"
        /\ Entries("validate_sql") = {}
        /\ Entries("execute_query") = {}
        /\ Entries("fix_query") = {}
        /\ Cardinality(CallsOf("generate_sql")) = 1
        /\ retry_count = 0
        /\ pc = "end" => final_response = GenerationFailedResponse

\* C13, as claimed: when validation fails with the retry budget used up,
\* the executor is not called afterwards and the run ends with the
\* validation-failure response, also when an execution error of an earlier
\* iteration is still in the state.
C13_ExhaustedValidationReported ==
    \A i \in Entries("validate_sql") :
        ( /\ ~trace[i].ok
          /\ Truthy(trace[i].ret)
          /\ Cardinality({ f \in Entries("fix_query") : f < i }) = max_retries ) =>
            /\ \A j \in CallsOf("execute_query") : j < i
            /\ pc = "end" => final_response = ValidationFailedResponse(trace[i].ret)

\* C14, as claimed: when execution fails with the retry budget used up the
\* run ends with the execution-failure response and no further Repair; and
\* a run in which every validation passed and every execution failed ends
\* after exactly max_retries Repairs with retry_count = max_retries.
C14_ExhaustedExecutionReported ==
    /\ \A i \in CallsOf("execute_query") :
           ( /\ ~trace[i].ok
             /\ Cardinality({ f \in Entries("fix_query") : f < i }) = max_retries ) =>
               /\ \A f \in Entries("fix_query") : f < i
               /\ pc = "end" => final_response = ExecutionFailedResponse(trace[i].ret)
    /\ ( /\ pc = "end"
         /\ CallsOf("execute_query") # {}
         /\ \A i \in CallsOf("execute_query") : ~trace[i].ok
         /\ \A v \in Entries("validate_sql") : trace[v].ok ) =>
           /\ Cardinality(CallsOf("_fix_query")) = max_retries
           /\ retry_count = max_retries

C16_StepsAppendOnly ==
    [][ /\ Len(steps) <= Len(steps')
        /\ SubSeq(steps', 1, Len(steps)) = steps ]_vars

\* C16 witness: a run that ended after a Repair and a further validation,
\* with the records of all of them in steps
C16_Witness ==
    /\ pc = "end"
    /\ \E k \in 1..Len(steps) : \E n \in (k + 1)..Len(steps) :
           /\ steps[k].name = "Query Fix"
           /\ steps[k].status = "error"
           /\ steps[n].name = ValidationName
           /\ steps[n].status = "error"

\* the name under which a stage logs its steps
StepNameOf(node) ==
    CASE node = "classify_query" -> ClassifyName
      [] node = "retrieve_schema" -> SchemaName
      [] node = "generate_sql" -> "SQL Generation"
      [] node = "validate_sql" -> ValidationName
      [] node = "execute_query" -> ExecutionName
      [] node = "fix_query" -> "Query Fix"
      [] node = "generate_response" -> "Response Generation"

\* C17, as claimed: every failure during a run, fatal or recovered, has a
\* step record with failure status in the step trace: for every stage in
\* which a collaborator call failed, steps holds an "error" record of that
\* stage.
C17_EveryFailureLogged ==
    \A i \in 1..Len(trace) :
        (trace[i].calls # << >> /\ ~trace[i].ok) =>
            \E k \in 1..Len(steps) :
                /\ steps[k].name = StepNameOf(trace[i].node)
                /\ steps[k].status = "error"

\* C18: when Classify yields greeting or general_question the run ends
\* right after Classify: final_response is set, sql_query is unset,
\* retry_count is 0, steps holds Classify records only, and neither the SQL
\* generator nor the executor is called.
C18_NoSqlPathEndsAfterClassify ==
    query_type \in { "greeting", "general_question" } =>
        /\ pc = "end"
        /\ Len(trace) = 1
        /\ final_response =
               (IF query_type = "greeting" THEN GreetingResponse ELSE GeneralResponse)
        /\ sql_query = None
        /\ retry_count = 0
        /\ \A k \in 1..Len(steps) : steps[k].name = ClassifyName
        /\ CallsOf("generate_sql") = {}
        /\ CallsOf("execute_query") = {}

\* C18 witness: the classifier answered that no database access is needed
\* and the run ended as a general question
C18_Witness ==
    /\ pc = "end"
    /\ query_type = "general_question"
    /\ Called(1, "classify_query")
    /\ trace[1].ok

\* C19, as claimed: the utterance "Hello" is classified as greeting and the
\* run ends with the greeting response, with or without a classifier
\* configured on the agent.
C19_HelloIsGreeting ==
    (user_query = << "H", "e", "l", "l", "o" >> /\ Len(trace) >= 1) =>
        /\ query_type = "greeting"
        /\ pc = "end"
        /\ final_response = GreetingResponse

\* C20, as claimed: when the classifier fails, by raising or by its model
\* call failing, Classify takes the class the keyword heuristic gives the
\* utterance, and the failure does not abort the run.
C20_ClassifierFailureFallsBack ==
    (Len(trace) >= 1 /\ Called(1, "classify_query") /\ ~trace[1].ok) =>
        /\ query_type = ClassifyQuery(user_query)
        /\ Len(trace) = 1 => pc # "raised"

\* C21: the keyword heuristic is total and deterministic: on every
\* utterance it returns one of greeting, sql_query, general_question -
\* greeting when the utterance, in lower case, contains a greeting word;
\* otherwise sql_query when it contains a query keyword; otherwise
\* general_question.  Containment is of the word's characters anywhere in
\* the utterance.
C21_HeuristicIsTotal ==
    pc = "returned" =>
        LET HasWord(w) ==
                \E i \in 1..Len(user_query) :
                    /\ i + Len(w) - 1 <= Len(user_query)
                    /\ \A j \in 1..Len(w) : Lower(user_query[i + j - 1]) = w[j]
            greets == \E w \in greeting_words : HasWord(w)
            asks == \E w \in sql_keywords : HasWord(w)
        IN  /\ query_type \in { "greeting", "sql_query", "general_question" }
            /\ greets => query_type = "greeting"
            /\ (~greets /\ asks) => query_type = "sql_query"
            /\ (~greets /\ ~asks) => query_type = "general_question"

\* C21 witness: an utterance with both a query keyword and a greeting word
\* was classified as a greeting
C21_Witness ==
    /\ pc = "returned"
    /\ query_type = "greeting"
    /\ Contains(LowerText(user_query), << "s", "h", "o", "w" >>)
    /\ Contains(LowerText(user_query), << "h", "e", "y" >>)

\* C22: when Respond runs without a response generator, or the response
\* generator raises, final_response is the summary "I found N result(s)
\* for your query." with N the number of rows of the result, and the run
\* ends as a success: the Response Generation step is "completed" and no
\* "error" step is recorded for it.
C22_RespondFallsBackToCount ==
    \A i \in Entries("generate_response") :
        ( \/ trace[i].calls = << >> /\ trace[i].ok
          \/ Called(i, "generate_response") /\ ~trace[i].ok ) =>
            /\ pc = "end"
            /\ final_response =
                   << "I found", ToString(query_results), "result(s) for your query." >>
            /\ steps[Len(steps)].name = "Response Generation"
            /\ steps[Len(steps)].status = "completed"
            /\ \A k \in 1..Len(steps) :
                   steps[k].name = "Response Generation" => steps[k].status # "error"

\* C22 witness: the response generator raised on a result of 3 rows
C22_Witness ==
    /\ pc = "end"
    /\ query_results = 3
    /\ Called(Len(trace), "generate_response")
    /\ ~trace[Len(trace)].ok

\* C23, as claimed: every Repair request carries the SQL that just failed
\* and the error of the stage that just failed: the validation error when
\* Repair is entered from Validate, the execution error when entered from
\* Execute, never the error of an earlier iteration.
C23_RepairCarriesTriggeringError ==
    \A f \in Entries("fix_query") :
        /\ trace[f - 1].node \in { "validate_sql", "execute_query" }
        /\ ~trace[f - 1].ok
        /\ trace[f].sql_in = trace[f - 1].sql_in
        /\ trace[f].arg = trace[f - 1].ret

\* C24: within one run user_query never changes, and the schema of the
\* state is written at most once, by RetrieveSchema, and never changed
\* afterwards: Classify, Generate, Validate, Execute, Repair and Respond
\* leave both as they are, and RetrieveSchema runs at most once.
C24_QueryAndSchemaFrame ==
    [][ /\ user_query' = user_query
        /\ schema_info' # schema_info =>
               /\ pc = "retrieve_schema"
               /\ schema_info = Absent
        /\ Cardinality({ i \in 1..Len(trace') : trace'[i].node = "retrieve_schema" }) <= 1
      ]_vars

\* C24 witness: a run that fetched its schema from the database, then
\* generated, validated, executed, repaired and answered
C24_Witness ==
    /\ pc = "end"
    /\ schema_info \in Schemas
    /\ \E i \in Entries("retrieve_schema") : Called(i, "fetch_schema")
    /\ Entries("fix_query") # {}
    /\ Entries("generate_response") # {}

\* C25: when validation fails k times in a row, each failure followed by a
\* Repair that returned a different SQL, and the k-th repaired SQL passes
\* validation and executes successfully, then Respond is entered, with
\* retry_count = k, and the SQL that was executed is the last repaired one.
C25_RepairedValidationSucceeds ==
    LET fixes == Entries("fix_query")
        k == Cardinality(fixes)
        runs == { e \in CallsOf("execute_query") : trace[e].ok }
    IN  ( /\ k >= 1
          /\ \A f \in fixes : trace[f - 1].node = "validate_sql" /\ trace[f].ok
          /\ runs # {} ) =>
            \A e \in runs :
                /\ k <= max_retries
                /\ retry_count = k
                /\ trace[e - 1].node = "validate_sql" /\ trace[e - 1].ok
                /\ \A f \in fixes : f < e
                /\ \E f \in fixes : f = e - 2 /\ trace[e].sql_in = trace[f].ret
                /\ sql_query = trace[e].sql_in
                /\ pc \in { "generate_response", "end" }
                /\ pc = "end" =>
                       /\ trace[Len(trace)].node = "generate_response"
                       /\ Len(trace) = e + 1
                       /\ final_response # None

\* C25 witness: two failed validations, two Repairs, then a successful
\* execution and an answer
C25_Witness ==
    /\ pc = "end"
    /\ retry_count = 2
    /\ \A f \in Entries("fix_query") : trace[f - 1].node = "validate_sql" /\ trace[f].ok
    /\ trace[Len(trace)].node = "generate_response"

\* the fields of an AgentState recomputed from the answers its own
\* invocation received, as recorded in its trace

LastIn(S) == IF S = {} THEN 0 ELSE CHOOSE i \in S : \A j \in S : j <= i

FixesBefore(tr, i) == Cardinality({ f \in 1..(i - 1) : tr[f].node = "fix_query" })

ReplayedValidationError(tr) ==
    LET v == LastIn({ i \in 1..Len(tr) : tr[i].node = "validate_sql" })
    IN  IF v = 0 THEN None ELSE tr[v].ret

ReplayedExecutionError(tr) ==
    LET e == LastIn({ i \in 1..Len(tr) :
                        tr[i].node = "execute_query" /\ tr[i].calls # << >> })
    IN  IF e = 0 \/ tr[e].ok THEN None ELSE tr[e].ret

ReplayedQueryType(st) ==
    IF st.trace[1].calls = << >> \/ st.trace[1].ret = << "raised" >>
    THEN ClassifyQuery(st.user_query)
    ELSE IF st.trace[1].ret = << "Query does not require database access" >>
    THEN "general_question"
    ELSE "sql_query"

NoWrite == << "<no write>" >>

\* the final_response that entry i of the trace stored, NoWrite when none
ResponseWrittenBy(st, i) ==
    LET tr == st.trace
        en == tr[i]
        exhausted == FixesBefore(tr, i) >= max_retries
    IN  CASE en.node = "classify_query" ->
                 IF ReplayedQueryType(st) = "greeting" THEN GreetingResponse
                 ELSE IF ReplayedQueryType(st) = "general_question" THEN GeneralResponse
                 ELSE NoWrite
          [] en.node = "retrieve_schema" ->
                 IF en.ok THEN NoWrite ELSE SchemaFailedResponse
          [] en.node = "generate_sql" ->
                 IF Len(en.calls) = 2 /\ ~en.ok THEN GenerationFailedResponse ELSE NoWrite
          [] en.node = "validate_sql" ->
                 IF ~en.ok /\ Truthy(en.ret) /\ exhausted
                 THEN << "SQL validation failed after", ToString(max_retries),
                         "attempts:" >> \o en.ret
                 ELSE NoWrite
          [] en.node = "execute_query" ->
                 LET err == ReplayedExecutionError(SubSeq(tr, 1, i))
                 IN  IF Truthy(err) /\ exhausted
                     THEN << "Query execution failed after", ToString(max_retries),
                             "attempts. Error:" >> \o err
                     ELSE NoWrite
          [] en.node = "fix_query" -> NoWrite
          [] en.node = "generate_response" ->
                 IF en.calls # << >> /\ en.ok THEN en.ret
                 ELSE IF en.calls = << >> /\ ~en.ok THEN NoWrite
                 ELSE << "I found", ToString(st.query_results),
                         "result(s) for your query." >>

ReplayedResponse(st) ==
    LET w == LastIn({ i \in 1..Len(st.trace) : ResponseWrittenBy(st, i) # NoWrite })
    IN  IF w = 0 THEN None ELSE ResponseWrittenBy(st, w)

\* the number of step records entry i of the trace logged
StepsLoggedBy(en) ==
    CASE en.node = "classify_query" -> 3
      [] en.node = "retrieve_schema" -> Len(en.calls) + 1
      [] en.node = "generate_sql" -> Len(en.calls)
      [] en.node = "validate_sql" -> IF ~en.ok /\ en.ret = None THEN 1 ELSE 2
      [] en.node = "execute_query" -> IF en.calls = << >> THEN 0 ELSE 2
      [] en.node = "fix_query" -> 2
      [] en.node = "generate_response" -> IF en.calls = << >> /\ ~en.ok THEN 1 ELSE 2

RECURSIVE ReplayedStepCount(_, _)
ReplayedStepCount(tr, i) ==
    IF i = 0 THEN 0 ELSE ReplayedStepCount(tr, i - 1) + StepsLoggedBy(tr[i])

AsIfAlone(st) ==
    /\ st.retry_count = Cardinality({ f \in 1..Len(st.trace) : st.trace[f].node = "fix_query" })
    /\ st.sql_query = (IF st.trace = << >> THEN None ELSE st.trace[Len(st.trace)].sql_out)
    /\ st.validation_error = ReplayedValidationError(st.trace)
    /\ st.execution_error = ReplayedExecutionError(st.trace)
    /\ st.final_response = ReplayedResponse(st)
    /\ Len(st.steps) = ReplayedStepCount(st.trace, Len(st.trace))
    /\ st.trace # << >> => st.query_type = ReplayedQueryType(st)

\* C26: two invocations of run on one WorkflowAgent do not interfere: under
\* every interleaving of their nodes, the retry_count, sql_query, errors,
\* steps and final_response of each are what its own collaborator answers
\* make them, as when it runs alone.
C26_RunsDoNotInterfere ==
    /\ AsIfAlone(Running)
    /\ \A k \in 1..Len(parked) : AsIfAlone(parked[k])

\* C26 witness: the invocation that is running is about to repair for the
\* first time while the other one, suspended in the middle of its run, has
\* already repaired once
C26_Witness ==
    /\ parked # << >>
    /\ pc = "fix_query"
    /\ retry_count = 0
    /\ parked[1].retry_count = 1
    /\ parked[1].pc = "validate_sql"
    /\ parked[1].sql_query # sql_query

\* C27: a load_schema or clear that interleaves with a run does not change
\* the schema the run works with: the schema context given to the SQL
\* generator is the schema stored in the run's state by RetrieveSchema, and
\* the cache the generation reads never pairs the schema_info of one load
\* with the database_name of another.
C27_ReloadLeavesRunSchema ==
    \A g \in 1..Len(trace) :
        (trace[g].node = "generate_sql" /\ Len(trace[g].calls) = 2)
        => /\ trace[g].arg[2] = trace[g].arg[1]
           /\ trace[g].arg[2] # Absent
              => FromOneLoad(trace[g].arg[2], trace[g].arg[3])

\* C28: a collaborator call that does not return is timed out and treated as
\* the failure of its stage, so the run still reaches a terminal state.
C28_HungCallTimesOut == (pc = "blocked") ~> (pc \in { "end", "raised" })

\* C29: validate_query returns failure for every SQL string that contains
\* more than one statement, whatever the statements are.
C29_MultipleStatementsRejected ==
    (pc = "returned" /\ Len(ExecutedStatements(sql_query)) > 1
                     /\ \A k \in 1..Len(ExecutedStatements(sql_query)) :
                            ExecutedStatements(sql_query)[k] # << >>)
    => ~trace[1].ok

\* C30: validate_query accepts a SQL string only if its leading keyword is
\* SELECT in any letter case: a string with another leading keyword and a
\* string in which no DML or keyword token is found are rejected.
C30_AcceptedOnlyWithLeadingSelect ==
    (pc = "returned" /\ trace[1].ok)
    => /\ Statements(sql_query) # << >>
       /\ FirstKeyword(Statements(sql_query)[1]) = << "SELECT" >>

\* C31: validate_query returns failure for every SQL string that contains a
\* forbidden keyword as a separate word, in upper or lower case, also when
\* the string is a single statement that starts with SELECT.
C31_ForbiddenWordRejected ==
    (pc = "returned"
     /\ \E i \in 1..Len(sql_query) :
            sql_query[i] \in FORBIDDEN_KEYWORDS \cup { "drop" })
    => (~trace[1].ok /\ trace[1].ret # None)

\* C31 witness: a single statement that starts with SELECT and contains
\* "drop" in lower case has been rejected
C31_Witness ==
    /\ pc = "returned"
    /\ sql_query = << "SELECT", "x", "drop", "x" >>
    /\ ~trace[1].ok

\* C32: for an empty or a missing (None) SQL input validate_query returns
\* (False, error): it neither accepts the input nor raises.
C32_BadInputReportedAsValue ==
    (pc # "validate_query" /\ sql_query \in { << >>, None })
    => /\ pc = "returned"
       /\ ~trace[1].ok
       /\ trace[1].ret # None

\* the five checks of the validator, each taken on its own
PassesAllChecks(q) ==
    /\ Statements(q) # << >>
    /\ Len(Statements(q)) = 1
    /\ FirstKeyword(Statements(q)[1]) = << "SELECT" >>
    /\ ForbiddenIn(q) = {}
    /\ ~MatchesInjectionPattern(q)

\* C33: validate_query returns ok exactly when the query passes all checks:
\* non-empty and parsable, a single statement, leading keyword SELECT, no
\* forbidden keyword as a whole word, no injection pattern.
C33_OkExactlyWhenAllChecksPass ==
    pc = "returned" => (trace[1].ok <=> PassesAllChecks(sql_query))

ErrorKind(error) ==
    CASE error = None -> "none"
      [] error[1] = "Empty SQL query" -> "empty"
      [] error[1] = "Multiple SQL statements are not allowed." -> "multiple"
      [] error[1] = "Only SELECT queries are allowed. Found:" -> "not_select"
      [] error[1] \in { "Security violation: keyword detected",
                        "Forbidden operation" } -> "forbidden"
      [] error[1] = "Security violation: Potential SQL injection detected." -> "injection"
      [] OTHER -> "other"

LeadsWithOtherKeyword(q) ==
    /\ Statements(q) # << >>
    /\ FirstKeyword(Statements(q)[1]) \notin { None, << "SELECT" >> }

\* the first failing check in the order the code applies them
FirstFailingCheck(q) ==
    CASE ForbiddenIn(q) # {} -> "forbidden"
      [] ForbiddenIn(q) = {} /\ MatchesInjectionPattern(q) -> "injection"
      [] OTHER ->
           IF Statements(q) = << >> THEN "empty"
           ELSE IF FirstKeyword(Statements(q)[1]) = None /\ ForbiddenWithin(q) # {}
           THEN "forbidden"
           ELSE IF LeadsWithOtherKeyword(q) THEN "not_select"
           ELSE IF Len(Statements(q)) > 1 THEN "multiple"
           ELSE "none"

\* the first failing check in the order empty, more than one statement,
\* leading keyword, forbidden keyword, injection pattern
FirstFailingCheckAsListed(q) ==
    IF Statements(q) = << >> THEN "empty"
    ELSE IF Len(Statements(q)) > 1 THEN "multiple"
    ELSE IF LeadsWithOtherKeyword(q) THEN "not_select"
    ELSE IF ForbiddenIn(q) # {} THEN "forbidden"
    ELSE IF FirstKeyword(Statements(q)[1]) = None /\ ForbiddenWithin(q) # {}
    THEN "forbidden"
    ELSE IF MatchesInjectionPattern(q) THEN "injection"
    ELSE "none"

LastExecute(tr) == LastIn({ e \in 1..Len(tr) : tr[e].node = "execute_query" })

\* C36: the Respond stage is entered only when the most recent Execute
\* succeeded with a result that has columns; in every terminal state that
\* has query_results set, validation_error and execution_error are None and
\* sql_query is the SQL whose execution produced those results.
C36_RespondOnlyAfterSuccessfulExecute ==
    /\ (pc = "generate_response" \/ Entries("generate_response") # {})
       => /\ LastExecute(trace) # 0
          /\ trace[LastExecute(trace)].calls = << "execute_query" >>
          /\ trace[LastExecute(trace)].ok
    /\ (pc = "end" /\ query_results # NoResults)
       => /\ validation_error = None
          /\ execution_error = None
          /\ LastExecute(trace) # 0
          /\ trace[LastExecute(trace)].ok
          /\ sql_query = trace[LastExecute(trace)].sql_in

\* C36 witness: a run that repaired its SQL after a failed execution has
\* ended with the results of the repaired SQL
C36_Witness ==
    /\ pc = "end"
    /\ query_results # NoResults
    /\ retry_count = 1
    /\ Entries("generate_response") # {}
    /\ \E e \in Entries("execute_query") : ~trace[e].ok /\ trace[e].sql_in # sql_query

\* the number of repairs begun before record k of steps
RepairsBegunBefore(k) ==
    Cardinality({ j \in 1..(k - 1) :
                    steps[j].name = "Query Fix" /\ steps[j].status = "in_progress" })

\* the retry count the stage that logged record k was entered with
RetriesAt(k) ==
    IF steps[k].name = "Query Fix" /\ steps[k].status # "in_progress"
    THEN RepairsBegunBefore(k) - 1
    ELSE RepairsBegunBefore(k)

\* the step number of each stage for retry count r
StageStepNumber(name, r) ==
    CASE name = ClassifyName -> 1
      [] name = SchemaName -> 2
      [] name \in { "SQL Generation", "SQL Generation (Retry)" } -> 3 + 2 * r
      [] name = ValidationName -> 4 + 2 * r
      [] name \in { ExecutionName, "Query Fix" } -> 5 + 2 * r
      [] name = "Response Generation" -> 6 + 2 * r

\* C37: the step numbers in steps never decrease in append order, on every
\* path: classify 1, schema 2, generate 3, validate 4+2r, execute and fix
\* 5+2r, respond 6+2r for retry count r.
C37_StepNumbersNeverDecrease ==
    /\ \A k \in 1..Len(steps) :
           steps[k].step = StageStepNumber(steps[k].name, RetriesAt(k))
    /\ \A j, k \in 1..Len(steps) : j < k => steps[j].step <= steps[k].step

\* C37 witness: a run with two repairs, one after a failed validation and
\* one after a failed execution, has reached Respond at step 10
C37_Witness ==
    /\ pc = "end"
    /\ retry_count = 2
    /\ steps[Len(steps)].name = "Response Generation"
    /\ steps[Len(steps)].step = 10
    /\ \E f \in Entries("fix_query") : f > 1 /\ trace[f - 1].node = "validate_sql"
    /\ \E f \in Entries("fix_query") : f > 1 /\ trace[f - 1].node = "execute_query"

\* C38: with max_retries = 0 the Repair stage is never entered: the first
\* validation failure or the first execution failure ends the run with the
\* corresponding exhausted-failure final_response, retry_count stays 0 and
\* the repair generator is never called.
C38_NoRepairWithoutBudget ==
    max_retries = 0 =>
        /\ Entries("fix_query") = {}
        /\ CallsOf("_fix_query") = {}
        /\ retry_count = 0
        /\ \A v \in Entries("validate_sql") :
               (~trace[v].ok /\ Truthy(trace[v].ret))
               => /\ CallsOf("execute_query") = {}
                  /\ pc \in { "execute_query", "end" }
                  /\ pc = "end" => final_response = ValidationFailedResponse(trace[v].ret)
        /\ \A e \in CallsOf("execute_query") :
               ~trace[e].ok
               => /\ pc = "end"
                  /\ final_response = ExecutionFailedResponse(trace[e].ret)

\* C39: a workflow run always uses the session's current SchemaRAG: after
\* the session's schema_rag object has been replaced, a WorkflowAgent
\* created before is not run again with the SchemaRAG that was replaced.
C39_RunUsesCurrentSchemaRag ==
    \A r \in 1..Len(trace) :
        trace[r].node = "run" => trace[r].arg[1] = trace[r].arg[2]

\* C40: sanitize_results is idempotent for a fixed max_rows: applying it
\* again with the same max_rows returns the same rows, columns, truncated
\* flag and original_row_count as the application before.
C40_SanitizeIdempotent ==
    \A k \in 1..Len(trace) :
        Reapplied(k) =>
            \A key \in { "rows", "columns", "truncated", "original_row_count" } :
                Get(Sanitized(k), key) = Get(Sanitized(k - 1), key)

====
